---- MODULE Spec2Model ----
(***************************************************************************)
(* A model of beads_viewer's insights aggregator (analysis.getTopItems,    *)
(* GraphStats.GenerateInsights), of the metrics cache it reads, of the     *)
(* dependency graph construction of the graph view (ui.GraphModel), of the *)
(* incremental vector index sync (search.SyncVectorIndex) and of the agent *)
(* blurb functions (agents.UpdateBlurb and the functions it calls).        *)
(*                                                                         *)
(* Go strings are compared bytewise, so identifiers carry their bytes and  *)
(* every ordering of identifiers is computed on them.  Metric values are   *)
(* finite float64 numbers in the code; here they are small integers.       *)
(* Go's map iteration order is unspecified: each range over a map is a     *)
(* nondeterministic choice of an enumeration of its keys.                  *)
(***************************************************************************)
EXTENDS Integers, Sequences, FiniteSets, TLC

VARIABLES
    m,          \* getTopItems: the metric map handed in
    limit,      \* getTopItems: the limit handed in
    enum,       \* getTopItems: the order in which the last call ranged over m
    result,     \* getTopItems: what the last call returned
    called,     \* whether the call under study has been made
    stats,      \* GenerateInsights: the GraphStats the method is called on
    self,       \* GenerateInsights: the address of that GraphStats (s)
    enums,      \* GenerateInsights: the order each ranked map was ranged over
    insights,   \* GenerateInsights: the Insights the last call returned
    mutex,      \* metrics cache: per metric, the caller holding its lock (0: free)
    stored,     \* metrics cache: per metric, the stored result (0: not computed)
    computations, \* metrics cache: per metric, how often it has been computed
    pc,         \* per caller of GenerateInsights: the accessor call it is in
    seen,       \* per caller and metric: the result the accessor returned (0: none yet)
    issues,     \* GraphModel: the issues last handed in (g.issues)
    issueMap,   \* GraphModel: id -> index in issues of the issue it points to
    nodes,      \* GraphModel: the laid out nodes; node index i is nodes[i + 1]
    edges,      \* GraphModel: the edges, from and to being node indices
    layers,     \* GraphModel: per layer (layer l is layers[l + 1]) its node indices
    selectedNode, \* GraphModel: index of the selected node
    order,      \* buildGraph: the order in which the last build ranged over allIDs
    phase,      \* buildGraph step by step: where the run is
    stack,      \* the computeLayer calls that have not returned, innermost last
    layerOf,    \* buildGraph's local map layers: id -> layer
    visited,    \* the visited map of the running top-level computeLayer call
    todo,       \* the ids the range over allIDs has still to take
    arg,        \* the id the computeLayer call being entered is for
    ret,        \* the value the last computeLayer call returned
    idx,        \* SyncVectorIndex: the vector index
    embedder,   \* SyncVectorIndex: the embedder
    docs,       \* SyncVectorIndex: id -> text of the documents
    batchSize,  \* SyncVectorIndex: the batch size handed in
    syncStats,  \* the IndexSyncStats each call so far returned
    syncErrs,   \* the error each call so far returned ("nil": none)
    embedCalls, \* the batches of texts the last call handed to the embedder
    idxBefore,  \* the index as it was when the last call began
    syncCall,   \* the locals of the running SyncVectorIndex call (pc "idle": none)
    agentFile,  \* the content of an agent file, a sequence of pieces of text
    agentFileBefore, \* that content before the blurb function was applied
    blurbOp     \* the blurb function that has been applied ("none": none yet)

vars == <<m, limit, enum, result, called, stats, self, enums, insights,
          mutex, stored, computations, pc, seen,
          issues, issueMap, nodes, edges, layers, selectedNode, order,
          phase, stack, layerOf, visited, todo, arg, ret,
          idx, embedder, docs, batchSize, syncStats, syncErrs, embedCalls,
          idxBefore, syncCall, agentFile, agentFileBefore, blurbOp>>

topVars == <<m, limit, enum, result, called>>
insightsVars == <<stats, self, enums, insights>>
cacheVars == <<mutex, stored, computations, pc, seen>>
graphVars == <<issues, issueMap, nodes, edges, layers, selectedNode, order>>
layerVars == <<phase, stack, layerOf, visited, todo, arg, ret>>
syncVars == <<idx, embedder, docs, batchSize, syncStats, syncErrs, embedCalls,
             idxBefore, syncCall>>
blurbVars == <<agentFile, agentFileBefore, blurbOp>>

\* ------------------------------------------------------------------ bounds

MaxVal == 2
MaxLimit == 4
MaxScore == 1
MaxCallers == 2
MaxIssues == 2
\* The deepest the recursion of computeLayer is followed.
MaxDepth == 4
\* The calls of SyncVectorIndex followed on one index.
MaxSyncs == 2
\* The parts a file is put together from, at most.
MaxParts == 3

\* ------------------------------------------------------- strings and order

IDs == {"bv-1", "bv-2", "bv-10"}

\* The bytes of an identifier (ASCII): b v - 0 1 2 are 98 118 45 48 49 50.
Bytes(s) ==
    CASE s = "bv-1"  -> <<98, 118, 45, 49>>
      [] s = "bv-2"  -> <<98, 118, 45, 50>>
      [] s = "bv-10" -> <<98, 118, 45, 49, 48>>
      [] s = "bv-9"  -> <<98, 118, 45, 57>>

RECURSIVE LexLess(_, _)
LexLess(a, b) ==
    IF b = <<>> THEN FALSE
    ELSE IF a = <<>> THEN TRUE
    ELSE IF Head(a) # Head(b) THEN Head(a) < Head(b)
    ELSE LexLess(Tail(a), Tail(b))

\* Go's s < t on strings: bytewise lexicographic, a proper prefix first.
StrLess(s, t) == LexLess(Bytes(s), Bytes(t))

Min(a, b) == IF a < b THEN a ELSE b

\* All enumerations (without repetition) of a finite set.
Perms(S) ==
    {p \in [1..Cardinality(S) -> S] : \A i, j \in DOMAIN p : i # j => p[i] # p[j]}

\* ---------------------------------------------------------- getTopItems

\* All metric maps over the identifiers, values 0..MaxVal.
MetricMaps == UNION {[K -> 0..MaxVal] : K \in SUBSET IDs}

\* ss after the range loop: one kv per key, in enumeration order.
Collect(mm, e) == [i \in 1..Len(e) |-> [Key |-> e[i], Value |-> mm[e[i]]]]

\* A comparator that forgets the tie-break on the key.
LessNoTie(a, b) == a.Value > b.Value

\* A comparator that breaks ties the wrong way round.
LessTieDesc(a, b) ==
    IF a.Value = b.Value THEN StrLess(b.Key, a.Key) ELSE a.Value > b.Value

\* The less function given to sort.Slice.
Less(a, b) ==
    IF a.Value = b.Value THEN StrLess(a.Key, b.Key) ELSE a.Value > b.Value

\* x put before the first element it is less than.
RECURSIVE InsertSorted(_, _)
InsertSorted(s, x) ==
    IF s = <<>> THEN <<x>>
    ELSE IF Less(x, Head(s)) THEN <<x>> \o s
    ELSE <<Head(s)>> \o InsertSorted(Tail(s), x)

\* sort.Slice(ss, less): elements are taken in the order they stand in ss.
RECURSIVE SortSlice(_)
SortSlice(ss) ==
    IF ss = <<>> THEN <<>>
    ELSE InsertSorted(SortSlice(SubSeq(ss, 1, Len(ss) - 1)), ss[Len(ss)])

\* The result loop run one step too far: i <= limit.
TakeOffByOne(ss, lim) ==
    [i \in 1..Min(Len(ss), IF lim + 1 > 0 THEN lim + 1 ELSE 0) |->
        [ID |-> ss[i].Key, Value |-> ss[i].Value]]

\* result made with length limit instead of empty: limit zero items, then
\* the ranked ones appended.
TakeMakeLen(ss, lim) ==
    [i \in 1..(IF lim > 0 THEN lim ELSE 0) |-> [ID |-> "", Value |-> 0]]
        \o [i \in 1..Min(Len(ss), IF lim > 0 THEN lim ELSE 0) |->
                [ID |-> ss[i].Key, Value |-> ss[i].Value]]

\* The result loop: for i := 0; i < len(ss) && i < limit; i++.
Take(ss, lim) ==
    [i \in 1..Min(Len(ss), IF lim > 0 THEN lim ELSE 0) |->
        [ID |-> ss[i].Key, Value |-> ss[i].Value]]

getTopItems(mm, e, lim) == Take(SortSlice(Collect(mm, e)), lim)


\* ------------------------------------------------------- GenerateInsights

RankedFields == {"betweenness", "criticalPath", "eigenvector", "hubs", "authorities"}

EmptyMap == [k \in {} |-> 0]

\* The zero value of Insights.
NoInsights ==
    [Bottlenecks |-> <<>>, Keystones |-> <<>>, Influencers |-> <<>>,
     Hubs |-> <<>>, Authorities |-> <<>>, Orphans |-> <<>>, Cycles |-> <<>>,
     ClusterDensity |-> 0, Stats |-> "nil"]

\* The accessors of GraphStats: each returns a copy of the stored metric.
PageRank(s) == s.pageRank
Betweenness(s) == s.betweenness
CriticalPathScore(s) == s.criticalPath
Eigenvector(s) == s.eigenvector
Hubs(s) == s.hubs
Authorities(s) == s.authorities
Cycles(s) == s.cycles

\* The limit is handed to getTopItems as it came, without the default.
GenerateInsightsNoDefault(addr, s, lim, en) ==
    [Bottlenecks    |-> getTopItems(Betweenness(s), en.betweenness, lim),
     Keystones      |-> getTopItems(CriticalPathScore(s), en.criticalPath, lim),
     Influencers    |-> getTopItems(Eigenvector(s), en.eigenvector, lim),
     Hubs           |-> getTopItems(Hubs(s), en.hubs, lim),
     Authorities    |-> getTopItems(Authorities(s), en.authorities, lim),
     Orphans        |-> <<>>,
     Cycles         |-> Cycles(s),
     ClusterDensity |-> s.Density,
     Stats          |-> addr]

\* Hubs and Authorities taken from each other's map.
GenerateInsightsSwapped(addr, s, lim, en) ==
    LET n == IF lim <= 0 THEN Cardinality(DOMAIN PageRank(s)) ELSE lim
    IN  [Bottlenecks    |-> getTopItems(Betweenness(s), en.betweenness, n),
         Keystones      |-> getTopItems(CriticalPathScore(s), en.criticalPath, n),
         Influencers    |-> getTopItems(Eigenvector(s), en.eigenvector, n),
         Hubs           |-> getTopItems(Authorities(s), en.authorities, n),
         Authorities    |-> getTopItems(Hubs(s), en.hubs, n),
         Orphans        |-> <<>>,
         Cycles         |-> Cycles(s),
         ClusterDensity |-> s.Density,
         Stats          |-> addr]

\* (s *GraphStats) GenerateInsights(limit): s is at address addr; en gives
\* the order in which each of the five getTopItems calls ranges over its map.
GenerateInsights(addr, s, lim, en) ==
    LET pageRank     == PageRank(s)
        betweenness  == Betweenness(s)
        criticalPath == CriticalPathScore(s)
        eigenvector  == Eigenvector(s)
        hubs         == Hubs(s)
        authorities  == Authorities(s)
        cycles       == Cycles(s)
        n == IF lim <= 0 THEN Cardinality(DOMAIN pageRank) ELSE lim
    IN  [Bottlenecks    |-> getTopItems(betweenness, en.betweenness, n),
         Keystones      |-> getTopItems(criticalPath, en.criticalPath, n),
         Influencers    |-> getTopItems(eigenvector, en.eigenvector, n),
         Hubs           |-> getTopItems(hubs, en.hubs, n),
         Authorities    |-> getTopItems(authorities, en.authorities, n),
         Orphans        |-> <<>>,
         Cycles         |-> cycles,
         ClusterDensity |-> s.Density,
         Stats          |-> addr]

IdleInsights ==
    /\ stats = [pageRank |-> EmptyMap, betweenness |-> EmptyMap,
                criticalPath |-> EmptyMap, eigenvector |-> EmptyMap,
                hubs |-> EmptyMap, authorities |-> EmptyMap,
                cycles |-> <<>>, Density |-> 0]
    /\ self = "nil"
    /\ enums = [f \in RankedFields |-> <<>>]
    /\ insights = NoInsights

\* --------------------------------------------------- GraphModel.buildGraph

\* The dependency kinds (model.DepBlocks, model.DepParentChild, and one of
\* the kinds that are not structural).
DepBlocks == "blocks"
DepParentChild == "parent-child"
DepRelatesTo == "relates-to"
DepTypes == {DepBlocks, DepParentChild, DepRelatesTo}

\* Layout numbers of buildGraph.
nodeWidth == 20
nodeHeight == 4
horizontalGap == 4
verticalGap == 2

Max(a, b) == IF a > b THEN a ELSE b

\* allIDs: the ids of the issues handed in.
AllIDs(iss) == {iss[i].ID : i \in DOMAIN iss}

\* issueMap[issues[i].ID] = &issues[i] for i in order: the last issue of an
\* id wins.
MakeIssueMap(iss) ==
    [id \in AllIDs(iss) |->
        CHOOSE i \in DOMAIN iss :
            iss[i].ID = id /\ \A j \in DOMAIN iss : iss[j].ID = id => j <= i]

\* A filter that lets every kind through.
AnyKind(t) == TRUE

\* The kinds that enter dependsOn: blocks or parent-child.
IsStructural(t) == t = DepBlocks \/ t = DepParentChild

\* The kinds the edge loop skips: neither blocks nor parent-child.
SkippedKind(t) == t # DepBlocks /\ t # DepParentChild

\* The DependsOnIDs of the structural dependencies, in order.
RECURSIVE StructuralTargets(_)
StructuralTargets(deps) ==
    IF deps = <<>> THEN <<>>
    ELSE (IF IsStructural(Head(deps).Type) THEN <<Head(deps).DependsOnID>> ELSE <<>>)
            \o StructuralTargets(Tail(deps))

\* dependsOn[id] once the first loop is through: what the issues of that id
\* depend on structurally, in the order of appending.
RECURSIVE DependsOn(_, _)
DependsOn(iss, id) ==
    IF iss = <<>> THEN <<>>
    ELSE (IF Head(iss).ID = id THEN StructuralTargets(Head(iss).Dependencies) ELSE <<>>)
            \o DependsOn(Tail(iss), id)

\* mm with key k set to v.
Put(mm, k, v) == [x \in DOMAIN mm \cup {k} |-> IF x = k THEN v ELSE mm[x]]

\* computeLayer(id, visited): the layers memo and the visited map are shared
\* by reference, so both are threaded through the recursion and returned.
RECURSIVE computeLayer(_, _, _, _, _)
RECURSIVE VisitParents(_, _, _, _, _, _)
computeLayer(id, lay, vis, iss, imap) ==
    IF id \in DOMAIN lay THEN [ret |-> lay[id], layers |-> lay, visited |-> vis]
    ELSE IF id \in vis THEN [ret |-> 0, layers |-> lay, visited |-> vis]
    ELSE LET r == VisitParents(DependsOn(iss, id), -1, lay, vis \cup {id}, iss, imap)
         IN  [ret |-> r.maxParent + 1,
              layers |-> Put(r.layers, id, r.maxParent + 1),
              visited |-> r.visited]

\* The loop over dependsOn[id]: parents outside issueMap are passed over.
VisitParents(parents, maxParent, lay, vis, iss, imap) ==
    IF parents = <<>> THEN [maxParent |-> maxParent, layers |-> lay, visited |-> vis]
    ELSE IF Head(parents) \in DOMAIN imap
         THEN LET c == computeLayer(Head(parents), lay, vis, iss, imap)
              IN  VisitParents(Tail(parents), Max(maxParent, c.ret),
                               c.layers, c.visited, iss, imap)
         ELSE VisitParents(Tail(parents), maxParent, lay, vis, iss, imap)

\* for id := range allIDs { computeLayer(id, make(map[string]bool)) }, the
\* range taking the ids in order ord.
RECURSIVE ComputeLayers(_, _, _, _)
ComputeLayers(ord, lay, iss, imap) ==
    IF ord = <<>> THEN lay
    ELSE ComputeLayers(Tail(ord), computeLayer(Head(ord), lay, {}, iss, imap).layers,
                       iss, imap)

\* maxLayer: the largest layer, 0 at least.
MaxLayer(lay) ==
    IF DOMAIN lay = {} THEN 0
    ELSE Max(0, CHOOSE l \in {lay[k] : k \in DOMAIN lay} :
                    \A k \in DOMAIN lay : lay[k] <= l)

\* sort.Strings on the ids of a set.
RECURSIVE SortStrings(_)
SortStrings(S) ==
    IF S = {} THEN <<>>
    ELSE LET least == CHOOSE x \in S : \A y \in S : x = y \/ StrLess(x, y)
         IN  <<least>> \o SortStrings(S \ {least})

\* layerGroups[l], sorted.
LayerGroup(lay, l) == SortStrings({k \in DOMAIN lay : lay[k] = l})

\* The nodes of layers l..maxLayer in order of creation.
RECURSIVE NodesFrom(_, _, _)
NodesFrom(lay, l, maxLayer) ==
    IF l > maxLayer THEN <<>>
    ELSE LET ids == LayerGroup(lay, l)
         IN  [i \in 1..Len(ids) |->
                 [id |-> ids[i],
                  x |-> (i - 1) * (nodeWidth + horizontalGap),
                  y |-> l * (nodeHeight + verticalGap),
                  width |-> nodeWidth, height |-> nodeHeight, layer |-> l]]
             \o NodesFrom(lay, l + 1, maxLayer)

\* nodeIndexMap: id -> index of its node.
NodeIndexMap(ns) ==
    [id \in {ns[i].id : i \in DOMAIN ns} |->
        (CHOOSE i \in DOMAIN ns : ns[i].id = id) - 1]

\* g.layers: for each layer the indices of its nodes.
LayersOf(ns, maxLayer) ==
    [l1 \in 1..(maxLayer + 1) |->
        LET at == {i \in DOMAIN ns : ns[i].layer = l1 - 1}
        IN  [j \in 1..Cardinality(at) |->
                (CHOOSE i \in at : Cardinality({h \in at : h < i}) = j - 1) - 1]]

\* A lookup that reports every key as present: a missing one reads as 0.
HasKeyAlways(nim, id) == TRUE

\* idx, ok := nodeIndexMap[id]: ok.
HasKey(nim, id) == id \in DOMAIN nim

\* idx, ok := nodeIndexMap[id]: idx, the zero value for a missing key.
IndexOf(nim, id) == IF id \in DOMAIN nim THEN nim[id] ELSE 0

\* The edge with its ends the wrong way round.
MakeEdgeReversed(dependencyIdx, dependentIdx, t) ==
    [from |-> dependentIdx, to |-> dependencyIdx, depType |-> t]

\* graphEdge{from: dependencyIdx, to: dependentIdx, depType: string(dep.Type)}
MakeEdge(dependencyIdx, dependentIdx, t) ==
    [from |-> dependencyIdx, to |-> dependentIdx, depType |-> t]

\* The inner loop over one issue's dependencies.
RECURSIVE EdgesOfDeps(_, _, _)
EdgesOfDeps(deps, dependentIdx, nim) ==
    IF deps = <<>> THEN <<>>
    ELSE (IF SkippedKind(Head(deps).Type) THEN <<>>
          ELSE IF ~HasKey(nim, Head(deps).DependsOnID) THEN <<>>
          ELSE <<MakeEdge(IndexOf(nim, Head(deps).DependsOnID), dependentIdx,
                          Head(deps).Type)>>)
            \o EdgesOfDeps(Tail(deps), dependentIdx, nim)

\* The outer loop over the issues.
RECURSIVE EdgesOf(_, _)
EdgesOf(iss, nim) ==
    IF iss = <<>> THEN <<>>
    ELSE (IF ~HasKey(nim, Head(iss).ID) THEN <<>>
          ELSE EdgesOfDeps(Head(iss).Dependencies, IndexOf(nim, Head(iss).ID), nim))
            \o EdgesOf(Tail(iss), nim)

\* g.buildGraph(): from g.issues, g.issueMap and g.selectedNode to nodes,
\* edges, layers and selectedNode; ord is the order the range over allIDs
\* takes.
buildGraph(iss, imap, ord, sel) ==
    IF Len(iss) = 0
    THEN [nodes |-> <<>>, edges |-> <<>>, layers |-> <<>>, selectedNode |-> sel]
    ELSE LET lay == ComputeLayers(ord, EmptyMap, iss, imap)
             ns == NodesFrom(lay, 0, MaxLayer(lay))
         IN  [nodes |-> ns, edges |-> EdgesOf(iss, NodeIndexMap(ns)),
              layers |-> LayersOf(ns, MaxLayer(lay)),
              selectedNode |-> IF sel >= Len(ns) THEN 0 ELSE sel]

IdleGraph ==
    /\ issues = <<>>
    /\ issueMap = EmptyMap
    /\ nodes = <<>>
    /\ edges = <<>>
    /\ layers = <<>>
    /\ selectedNode = 0
    /\ order = <<>>

IdleLayer ==
    /\ phase = "idle"
    /\ stack = <<>>
    /\ layerOf = EmptyMap
    /\ visited = {}
    /\ todo = <<>>
    /\ arg = ""
    /\ ret = 0

\* -------------------------------------------------------- SyncVectorIndex

\* The texts of the documents.
Texts == {"t1", "t2"}

\* ComputeContentHash(text).
ComputeContentHash(text) ==
    CASE text = "t1" -> "h1"
      [] text = "t2" -> "h2"
      [] OTHER -> "h0"

\* The dimensions an index or an embedder may have.
Dims == {1, 2}

\* A *VectorIndex: nil, or its Dim and its entries by id.
NilIndex == [isNil |-> TRUE, Dim |-> 0, entries |-> EmptyMap]

\* An Embedder: nil, or one of dimension dim.
NilEmbedder == [isNil |-> TRUE, dim |-> 0]

\* The zero IndexSyncStats.
ZeroStats ==
    [Total |-> 0, Added |-> 0, Updated |-> 0, Removed |-> 0, Skipped |-> 0,
     Embedded |-> 0]

\* IndexSyncStats.Changed()
Changed(s) == s.Added + s.Updated + s.Removed > 0

\* The vector the embedder returns for a text.
Embed(e, text) == [text |-> text, dim |-> e.dim]

\* idx.sortedIDs()
sortedIDs(ix) == SortStrings(DOMAIN ix.entries)

\* idx.Remove(id)
Remove(ix, id) ==
    [ix EXCEPT !.entries = [k \in DOMAIN ix.entries \ {id} |-> ix.entries[k]]]

\* idx.Upsert(id, hash, vec), when it returns no error.
Upsert(ix, id, ch, vec) ==
    [ix EXCEPT !.entries = Put(ix.entries, id, [ContentHash |-> ch, Vector |-> vec])]

\* The checks before anything is done, all but the one of the dimensions.
PreconditionNoDim(ix, e) ==
    IF ix.isNil THEN "index cannot be nil"
    ELSE IF e.isNil THEN "embedder cannot be nil"
    ELSE "nil"

\* The checks before anything is done: the error, or "nil".
Precondition(ix, e) ==
    IF ix.isNil THEN "index cannot be nil"
    ELSE IF e.isNil THEN "embedder cannot be nil"
    ELSE IF ix.Dim # e.dim THEN "index dim does not match embedder dim"
    ELSE "nil"

\* if batchSize <= 0 { batchSize = 32 }
EffectiveBatch(bs) == IF bs <= 0 THEN 32 ELSE bs

\* A doc is skipped whenever the index has its id.
SkipIfPresent(ok, existingHash, ch) == ok

\* No doc is skipped.
SkipNever(ok, existingHash, ch) == FALSE

\* if ok && existing.ContentHash == ch: the doc is skipped.
IsUnchanged(ok, existingHash, ch) == ok /\ existingHash = ch

\* The locals of a call that is not running.
NoCall ==
    [pc |-> "idle", batchSize |-> 0, stats |-> ZeroStats, existingIDs |-> <<>>,
     ids |-> <<>>, toEmbedIDs |-> <<>>, toEmbedTexts |-> <<>>,
     toEmbedHashes |-> <<>>, start |-> 0, i |-> 0]

IdleSync ==
    /\ idx = NilIndex
    /\ embedder = NilEmbedder
    /\ docs = EmptyMap
    /\ batchSize = 0
    /\ syncStats = <<>>
    /\ syncErrs = <<>>
    /\ embedCalls = <<>>
    /\ idxBefore = NilIndex
    /\ syncCall = NoCall

\* ------------------------------------------------------------ agent blurb

\* A file's content is a sequence of pieces of text.  Each piece is one of
\* the strings the blurb functions look for, a line break, or text ("x",
\* "## heading") that holds none of them; no string looked for straddles two
\* pieces.  An index into the content is the number of pieces before it.
BlurbVersion == 2

NL == "\n"
CR == "\r"
\* Text without line break, marker or pattern.
X == "x"
\* BlurbStartMarker of version v.
StartMarker(v) ==
    CASE v = 1 -> "<!-- bv-agent-instructions-v1 -->"
      [] v = 2 -> "<!-- bv-agent-instructions-v2 -->"
      [] OTHER -> "<!-- bv-agent-instructions-v3 -->"
MarkerVersions == {1, 2, 3}
BlurbStartMarker == StartMarker(BlurbVersion)
BlurbEndMarker == "<!-- end-bv-agent-instructions -->"
\* The legacy heading, which is also the first of the LegacyBlurbPatterns.
Heading == "### Using bv as an AI sidecar"
RobotInsights == "--robot-insights"
RobotPlan == "--robot-plan"
HardParts == "bv already computes the hard parts"
LegacyBlurbPatterns == <<Heading, RobotInsights, RobotPlan, HardParts>>
\* The beginning of a line that starts a section: one or two #, a blank, text.
Section == "## heading"
\* The code fence: three backquote characters.
Fence == "fence"

\* AgentBlurb, its ordinary text folded into pieces "x": the start marker, a
\* rule, a section heading, the heading "### Using bv as an AI sidecar" at
\* the start of a line, a fenced block with a comment line beginning "# ",
\* the table naming --robot-plan and --robot-insights, a last fenced block,
\* the end marker.  "bv already computes the hard parts" is not in it.
AgentBlurb ==
    <<BlurbStartMarker, NL, NL, X, NL, NL, Section, NL, NL, X, NL, NL,
      Heading, NL, NL, X, NL, NL, Fence, X, NL, X, NL, NL, Section, NL, X, NL,
      Fence, NL, NL, X, RobotPlan, X, NL, X, RobotInsights, X, NL, NL,
      Fence, X, NL, X, NL, Fence, NL, NL, BlurbEndMarker>>

\* strings.Contains(content, piece) for one of the strings looked for.
Contains(content, piece) == \E i \in DOMAIN content : content[i] = piece

\* A piece beginning "<!-- bv-agent-instructions-v".
IsStartMarker(t) == \E v \in MarkerVersions : t = StartMarker(v)

\* content[i] is a line feed or a carriage return
IsLineBreak(t) == t = NL \/ t = CR

\* The first position after from among the positions at where a pattern
\* matches, as a byte offset counted in pieces; -1 without one.
FirstIndex(from, at) ==
    IF \E i \in at : i > from
    THEN (CHOOSE i \in at : i > from /\ \A j \in at : j > from => i <= j) - 1
    ELSE -1

\* (?m)^ holds before piece i: it is the first, or follows a "\n".
AtLineStart(content, i) == i = 1 \/ content[i - 1] = NL

\* The positions of a start marker of any version.
StartMarkerAt(content) == {i \in DOMAIN content : IsStartMarker(content[i])}
\* The positions where legacyBlurbStartPattern matches.
LegacyStartAt(content) ==
    {i \in DOMAIN content : content[i] = Heading /\ AtLineStart(content, i)}
\* The positions where legacyBlurbNextSectionPattern matches.
NextSectionAt(content) ==
    {i \in DOMAIN content : content[i] = Section /\ AtLineStart(content, i)}

\* ContainsBlurb(content)
ContainsBlurb(content) == \E i \in DOMAIN content : IsStartMarker(content[i])

\* ContainsLegacyBlurb(content): the heading at the start of a line, and all
\* four patterns somewhere.
ContainsLegacyBlurb(content) ==
    /\ FirstIndex(0, LegacyStartAt(content)) # -1
    /\ \A p \in DOMAIN LegacyBlurbPatterns :
          Contains(content, LegacyBlurbPatterns[p])

\* GetBlurbVersion(content): the version of the first complete start marker,
\* 0 without one.
GetBlurbVersion(content) ==
    LET i == FirstIndex(0, StartMarkerAt(content))
    IN  IF i = -1 THEN 0
        ELSE CHOOSE v \in MarkerVersions : content[i + 1] = StartMarker(v)

\* NeedsUpdate(content)
NeedsUpdate(content) ==
    IF ContainsLegacyBlurb(content) THEN TRUE
    ELSE IF ~ContainsBlurb(content) THEN FALSE
    ELSE GetBlurbVersion(content) < BlurbVersion

\* AppendBlurb(content)
AppendBlurb(content) ==
    (IF content = <<>> \/ content[Len(content)] # NL
     THEN content \o <<NL>> ELSE content)
        \o <<NL>> \o AgentBlurb \o <<NL>>

\* for endIdx < len(content) && content[endIdx] is a line break { endIdx++ }
RECURSIVE SkipForward(_, _)
SkipForward(content, endIdx) ==
    IF endIdx < Len(content) /\ IsLineBreak(content[endIdx + 1])
    THEN SkipForward(content, endIdx + 1) ELSE endIdx

\* for startIdx > 0 && content[startIdx-1] is a line break { startIdx-- }
RECURSIVE SkipBackward(_, _)
SkipBackward(content, startIdx) ==
    IF startIdx > 0 /\ IsLineBreak(content[startIdx])
    THEN SkipBackward(content, startIdx - 1) ELSE startIdx

\* content[:startIdx] + content[endIdx:]
Cut(content, startIdx, endIdx) ==
    SubSeq(content, 1, startIdx) \o SubSeq(content, endIdx + 1, Len(content))

\* RemoveBlurb(content): the first start marker and the first end marker,
\* each looked for from the beginning.
RemoveBlurb(content) ==
    LET startIdx == FirstIndex(0, StartMarkerAt(content))
        endIdx == FirstIndex(0,
                   {i \in DOMAIN content : content[i] = BlurbEndMarker})
    IN  IF startIdx = -1 THEN content
        ELSE IF endIdx = -1 THEN content
        ELSE Cut(content, SkipBackward(content, startIdx),
                 SkipForward(content, endIdx + 1))

\* Where a match of legacyBlurbEndPattern that begins with piece hard + 1
\* ends: the rest of the line, then line breaks and a fence if they follow,
\* then all line breaks.
RECURSIVE RestOfLine(_, _)
RestOfLine(content, i) ==
    IF i < Len(content) /\ content[i + 1] # NL THEN RestOfLine(content, i + 1)
    ELSE i

RECURSIVE SkipNewlines(_, _)
SkipNewlines(content, i) ==
    IF i < Len(content) /\ content[i + 1] = NL THEN SkipNewlines(content, i + 1)
    ELSE i

LegacyEndOfMatch(content, hard) ==
    LET line == RestOfLine(content, hard + 1)
        nls == SkipNewlines(content, line)
        fenced == IF nls < Len(content) /\ content[nls + 1] = Fence
                  THEN nls + 1 ELSE line
    IN  SkipNewlines(content, fenced)

\* RemoveLegacyBlurb(content).  The fallback looks for the next section from
\* ten bytes into the heading, so among the pieces after it.
RemoveLegacyBlurb(content) ==
    IF ~ContainsLegacyBlurb(content) THEN content
    ELSE LET startIdx == FirstIndex(0, LegacyStartAt(content))
             hard == FirstIndex(startIdx,
                        {i \in DOMAIN content : content[i] = HardParts})
             next == FirstIndex(startIdx + 1, NextSectionAt(content))
             endIdx == IF hard # -1 THEN LegacyEndOfMatch(content, hard)
                       ELSE IF next # -1 THEN next
                       ELSE Len(content)
             back == SkipBackward(content, startIdx)
         IN  Cut(content, IF back > 0 THEN back + 1 ELSE back,
                 SkipForward(content, endIdx))

\* UpdateBlurb(content)
UpdateBlurb(content) == AppendBlurb(RemoveBlurb(RemoveLegacyBlurb(content)))

IdleBlurb ==
    /\ agentFile = <<>>
    /\ agentFileBefore = <<>>
    /\ blurbOp = "idle"

\* ---------------------------------------------------------- metrics cache

\* The accessor calls of GenerateInsights, in the order it makes them.
MetricOrder ==
    <<"pageRank", "betweenness", "criticalPath", "eigenvector", "hubs",
      "authorities", "cycles">>

Metrics == {MetricOrder[i] : i \in DOMAIN MetricOrder}

Callers == 1..MaxCallers

\* A caller is at accessor call number idx, in one of its phases; after the
\* last call it is done.
AtCall(c, i, ph) == pc[c] = [idx |-> i, phase |-> ph]
Done(c) == pc[c].phase = "done"
Goto(c, i, ph) == pc' = [pc EXCEPT ![c] = [idx |-> i, phase |-> ph]]

IdleCache ==
    /\ mutex = [k \in Metrics |-> 0]
    /\ stored = [k \in Metrics |-> 0]
    /\ computations = [k \in Metrics |-> 0]
    /\ pc = [c \in Callers |-> [idx |-> 1, phase |-> "lock"]]
    /\ seen = [c \in Callers |-> [k \in Metrics |-> 0]]

\* A lock that never holds anyone back.
MutexIgnored(k) == TRUE

\* The metric's lock can be taken.
MutexFree(k) == mutex[k] = 0

\* The accessor takes the metric's lock, waiting while another caller has it.
Acquire(c) ==
    \E i \in DOMAIN MetricOrder :
        /\ AtCall(c, i, "lock")
        /\ MutexFree(MetricOrder[i])
        /\ mutex' = [mutex EXCEPT ![MetricOrder[i]] = c]
        /\ Goto(c, i, "check")
        /\ UNCHANGED <<stored, computations, seen, topVars, insightsVars, graphVars, layerVars, syncVars, blurbVars>>

\* Under the lock: is a result stored already?
Check(c) ==
    \E i \in DOMAIN MetricOrder :
        /\ AtCall(c, i, "check")
        /\ Goto(c, i, IF stored[MetricOrder[i]] = 0 THEN "compute" ELSE "read")
        /\ UNCHANGED <<mutex, stored, computations, seen, topVars, insightsVars, graphVars, layerVars, syncVars, blurbVars>>

\* First access: the metric is computed and its result stored.  The result
\* carries the number of the computation that made it.
Compute(c) ==
    \E i \in DOMAIN MetricOrder :
        LET k == MetricOrder[i] IN
        /\ AtCall(c, i, "compute")
        /\ computations' = [computations EXCEPT ![k] = @ + 1]
        /\ stored' = [stored EXCEPT ![k] = computations[k] + 1]
        /\ Goto(c, i, "read")
        /\ UNCHANGED <<mutex, seen, topVars, insightsVars, graphVars, layerVars, syncVars, blurbVars>>

\* The accessor copies the stored result for its caller.
Read(c) ==
    \E i \in DOMAIN MetricOrder :
        LET k == MetricOrder[i] IN
        /\ AtCall(c, i, "read")
        /\ seen' = [seen EXCEPT ![c][k] = stored[k]]
        /\ Goto(c, i, "unlock")
        /\ UNCHANGED <<mutex, stored, computations, topVars, insightsVars, graphVars, layerVars, syncVars, blurbVars>>

\* The accessor releases the lock and returns; the caller goes on to its
\* next accessor call, or has all its copies.
Release(c) ==
    \E i \in DOMAIN MetricOrder :
        /\ AtCall(c, i, "unlock")
        /\ mutex' = [mutex EXCEPT ![MetricOrder[i]] = 0]
        /\ IF i < Len(MetricOrder) THEN Goto(c, i + 1, "lock")
                                   ELSE Goto(c, i, "done")
        /\ UNCHANGED <<stored, computations, seen, topVars, insightsVars, graphVars, layerVars, syncVars, blurbVars>>

CallerStep(c) ==
    \/ Acquire(c)
    \/ Check(c)
    \/ Compute(c)
    \/ Read(c)
    \/ Release(c)

InitCache ==
    /\ IdleCache
    /\ IdleGraph
    /\ IdleLayer
    /\ IdleSync
    /\ IdleBlurb
    /\ IdleInsights
    /\ m = EmptyMap
    /\ limit = 0
    /\ enum = <<>>
    /\ result = <<>>
    /\ called = FALSE

NextCache ==
    \/ \E c \in Callers : Acquire(c)
    \/ \E c \in Callers : Check(c)
    \/ \E c \in Callers : Compute(c)
    \/ \E c \in Callers : Read(c)
    \/ \E c \in Callers : Release(c)

SpecCache == InitCache /\ [][NextCache]_vars

\* Every caller that can take a step eventually takes one (the scheduler runs
\* every goroutine; a lock that is free is eventually handed to a waiter).
SpecCacheFair == SpecCache /\ \A c \in Callers : WF_vars(CallerStep(c))


\* ------------------------------------------------ specification: ranking

InitTop ==
    /\ IdleCache
    /\ IdleGraph
    /\ IdleLayer
    /\ IdleSync
    /\ IdleBlurb
    /\ m \in MetricMaps
    /\ limit \in -1..MaxLimit
    /\ enum = <<>>
    /\ result = <<>>
    /\ called = FALSE
    /\ IdleInsights

\* One call of getTopItems(m, limit); the range over m takes any order.  The
\* function may be called again on the same map.
GetTopItemsCall ==
    /\ \E e \in Perms(DOMAIN m) :
          /\ enum' = e
          /\ result' = getTopItems(m, e, limit)
    /\ called' = TRUE
    /\ UNCHANGED <<m, limit>>
    /\ UNCHANGED <<insightsVars, cacheVars, graphVars, layerVars, syncVars, blurbVars>>

NextTop == GetTopItemsCall

SpecTop == InitTop /\ [][NextTop]_vars

\* ----------------------------------------------- specification: insights

\* The identifiers a snapshot's nodes are taken from.
NodeIDs == {"bv-1", "bv-2"}

\* How a metric of a snapshot reads the nodes' scores: the score itself, or
\* the score turned round.  Either way the metric has one entry per node.
Readings == {"with", "against"}

Metric(sc, r) ==
    CASE r = "with"    -> sc
      [] r = "against" -> [k \in DOMAIN sc |-> MaxScore - sc[k]]

\* Cycles and density of a snapshot with node set K: no cycle and density 0,
\* or one cycle through all of K and density 1.
Shapes(K) ==
    {[cycles |-> <<>>, Density |-> 0]} \cup
    (IF K = {} THEN {} ELSE {[cycles |-> <<SortStrings(K)>>, Density |-> 1]})

\* How the five ranked metrics read the scores: all with them, or one of
\* them in another way than the rest.
ReadingsOf ==
    {rd \in [RankedFields -> Readings] :
        Cardinality({f \in RankedFields : rd[f] # "with"}) <= 1}

\* The GraphStats of snapshots with node set K: one score per node, read by
\* each ranked metric in its own way.  Every metric map, PageRank among
\* them, has the nodes of the snapshot as its keys.
GraphStatsOver(K) ==
    {[pageRank |-> pr, betweenness |-> Metric(sc, rd.betweenness),
      criticalPath |-> Metric(sc, rd.criticalPath),
      eigenvector |-> Metric(sc, rd.eigenvector), hubs |-> Metric(sc, rd.hubs),
      authorities |-> Metric(sc, rd.authorities),
      cycles |-> sh.cycles, Density |-> sh.Density] :
        pr \in {[k \in K |-> 1]}, sc \in [K -> 0..MaxScore],
        rd \in ReadingsOf, sh \in Shapes(K)}

InitInsights ==
    /\ IdleCache
    /\ IdleGraph
    /\ IdleLayer
    /\ IdleSync
    /\ IdleBlurb
    /\ \E K \in SUBSET NodeIDs : stats \in GraphStatsOver(K)
    /\ self = "s1"
    /\ limit \in -1..(Cardinality(NodeIDs) + 1)
    /\ enums = [f \in RankedFields |-> <<>>]
    /\ insights = NoInsights
    /\ called = FALSE
    /\ m = EmptyMap
    /\ enum = <<>>
    /\ result = <<>>

\* The keys of map mm in the order e ranges over the identifiers.
RECURSIVE Restrict(_, _)
Restrict(e, mm) ==
    IF e = <<>> THEN <<>>
    ELSE IF Head(e) \in DOMAIN mm THEN <<Head(e)>> \o Restrict(Tail(e), mm)
    ELSE Restrict(Tail(e), mm)

\* The identifiers that occur in the ranked maps of s.
Keys(s) == UNION {DOMAIN s[f] : f \in RankedFields}

\* A caller has returned from s.GenerateInsights(limit).
Returned(c) == pc[c].phase = "returned"

\* A call s.GenerateInsights(limit) by caller c is the seven accessor calls,
\* one after the other, each under the lock of its metric (Acquire, Check,
\* Compute, Read, Release), and then this step: with its seven copies the
\* caller settles the limit, ranks the five maps and returns the Insights.
\* The five ranges over the metric maps follow one order e of the
\* identifiers, any order.
ReturnInsights(c) ==
    /\ Done(c)
    /\ \E e \in Perms(Keys(stats)) :
          LET en == [f \in RankedFields |-> Restrict(e, stats[f])]
          IN  /\ enums' = en
              /\ insights' = GenerateInsights(self, stats, limit, en)
    /\ called' = TRUE
    /\ Goto(c, Len(MetricOrder), "returned")
    /\ UNCHANGED <<stats, self, limit, m, enum, result, mutex, stored,
                   computations, seen, graphVars, layerVars, syncVars,
                   blurbVars>>

NextInsights ==
    \/ \E c \in Callers : Acquire(c)
    \/ \E c \in Callers : Check(c)
    \/ \E c \in Callers : Compute(c)
    \/ \E c \in Callers : Read(c)
    \/ \E c \in Callers : Release(c)
    \/ \E c \in Callers : ReturnInsights(c)

SpecInsights == InitInsights /\ [][NextInsights]_vars

\* -------------------------------------------------- specification: graph

\* What an issue may depend on, and how.
Deps == [DependsOnID : IDs, Type : DepTypes]

\* The dependency lists of an issue: none, or one dependency.
DepLists == {<<>>} \cup {<<d>> : d \in Deps}

\* Of an issue the graph reads its ID and its Dependencies.  Two issues of a
\* list may carry the same ID.
Issues == [ID : IDs, Dependencies : DepLists]

IssueLists == UNION {[1..n -> Issues] : n \in 0..MaxIssues}

\* NewGraphModel(issues, insights, theme), the range over allIDs taking the
\* order ord: a GraphModel with selectedNode 0, built.
NewGraphModel(iss, ord) ==
    LET imap == MakeIssueMap(iss)
        b == buildGraph(iss, imap, ord, 0)
    IN  [issues |-> iss, issueMap |-> imap, nodes |-> b.nodes,
         edges |-> b.edges, layers |-> b.layers,
         selectedNode |-> b.selectedNode, order |-> ord]

InitGraph ==
    /\ IdleCache
    /\ IdleLayer
    /\ IdleSync
    /\ IdleBlurb
    /\ IdleInsights
    /\ m = EmptyMap
    /\ limit = 0
    /\ enum = <<>>
    /\ result = <<>>
    /\ called = FALSE
    /\ \E iss \in IssueLists : \E ord \in Perms(AllIDs(iss)) :
          LET g == NewGraphModel(iss, ord)
          IN  /\ issues = g.issues
              /\ issueMap = g.issueMap
              /\ nodes = g.nodes
              /\ edges = g.edges
              /\ layers = g.layers
              /\ selectedNode = g.selectedNode
              /\ order = g.order

\* The lists a caller hands to SetIssues: the view is emptied, loses its
\* first issue, or gains one.
Updates(iss) ==
    {<<>>}
      \cup (IF iss = <<>> THEN {} ELSE {Tail(iss)})
      \cup (IF Len(iss) < MaxIssues THEN {Append(iss, i) : i \in Issues} ELSE {})

\* g.SetIssues(new, insights): issues and issueMap are replaced and the graph
\* is built again.
SetIssues ==
    \E new \in Updates(issues) : \E ord \in Perms(AllIDs(new)) :
        LET imap == MakeIssueMap(new)
            b == buildGraph(new, imap, ord, selectedNode)
        IN  /\ issues' = new
            /\ issueMap' = imap
            /\ nodes' = b.nodes
            /\ edges' = b.edges
            /\ layers' = b.layers
            /\ selectedNode' = b.selectedNode
            /\ order' = ord
            /\ UNCHANGED <<topVars, insightsVars, cacheVars, layerVars, syncVars, blurbVars>>

\* What the navigation methods leave alone: everything but g.selectedNode.
moveFrame ==
    <<issues, issueMap, nodes, edges, layers, order, topVars, insightsVars,
      cacheVars, layerVars, syncVars, blurbVars>>

\* g.MoveUp(): the nearest earlier node of the same layer, else the last
\* node of the layer before; without one the selection stays.
MoveUp ==
    /\ selectedNode' =
          IF Len(nodes) = 0 THEN selectedNode
          ELSE LET currentLayer == nodes[selectedNode + 1].layer
                   same == {i \in 0..(selectedNode - 1) :
                               nodes[i + 1].layer = currentLayer}
                   before == {i \in 0..(Len(nodes) - 1) :
                                 nodes[i + 1].layer = currentLayer - 1}
               IN  IF same # {} THEN CHOOSE i \in same : \A j \in same : j <= i
                   ELSE IF currentLayer > 0 /\ before # {}
                   THEN CHOOSE i \in before : \A j \in before : j <= i
                   ELSE selectedNode
    /\ UNCHANGED moveFrame

\* g.MoveDown(): the nearest later node of the same layer, else the first
\* node of the layer after; without one the selection stays.
MoveDown ==
    /\ selectedNode' =
          IF Len(nodes) = 0 THEN selectedNode
          ELSE LET currentLayer == nodes[selectedNode + 1].layer
                   same == {i \in (selectedNode + 1)..(Len(nodes) - 1) :
                               nodes[i + 1].layer = currentLayer}
                   after == {i \in 0..(Len(nodes) - 1) :
                                nodes[i + 1].layer = currentLayer + 1}
               IN  IF same # {} THEN CHOOSE i \in same : \A j \in same : i <= j
                   ELSE IF after # {}
                   THEN CHOOSE i \in after : \A j \in after : i <= j
                   ELSE selectedNode
    /\ UNCHANGED moveFrame

\* g.MoveLeft()
MoveLeft ==
    /\ selectedNode' = IF selectedNode > 0 THEN selectedNode - 1 ELSE selectedNode
    /\ UNCHANGED moveFrame

\* g.MoveRight()
MoveRight ==
    /\ selectedNode' =
          IF selectedNode < Len(nodes) - 1 THEN selectedNode + 1 ELSE selectedNode
    /\ UNCHANGED moveFrame

NextGraph ==
    \/ SetIssues
    \/ MoveUp
    \/ MoveDown
    \/ MoveLeft
    \/ MoveRight

SpecGraph == InitGraph /\ [][NextGraph]_vars

\* ------------------------------- specification: buildGraph, step by step

\* The ids in the order the issues are handed in.
IDOrder == <<"bv-1", "bv-2", "bv-10">>

\* What one issue depends on structurally: up to two of the ids, in order.
ParentLists ==
    {<<>>} \cup {<<a>> : a \in IDs}
           \cup {p \in IDs \X IDs : p[1] # p[2]}

\* For each id whether an issue has it, and that issue's parents: two for
\* the first id at most, one for the others.
Choices ==
    {ch \in [IDs -> {[present |-> FALSE, parents |-> <<>>]}
                      \cup [present : {TRUE}, parents : ParentLists]] :
        \A id \in IDs \ {IDOrder[1]} : Len(ch[id].parents) <= 1}

\* The issues of a choice: each dependency a blocks dependency.
RECURSIVE IssuesOf(_, _)
IssuesOf(ch, ids) ==
    IF ids = <<>> THEN <<>>
    ELSE (IF ch[Head(ids)].present
          THEN <<[ID |-> Head(ids),
                  Dependencies |->
                      [j \in DOMAIN ch[Head(ids)].parents |->
                          [DependsOnID |-> ch[Head(ids)].parents[j],
                           Type |-> DepBlocks]]]>>
          ELSE <<>>)
            \o IssuesOf(ch, Tail(ids))

\* A check of visited that never finds the id.
NeverVisited(vis, id) == FALSE

\* if visited[id]
Visited(vis, id) == id \in vis

\* The frame of the running computeLayer call.
Top == stack[Len(stack)]
Pop == SubSeq(stack, 1, Len(stack) - 1)

\* buildGraph has been entered on a model made of the issues of a choice;
\* the range over allIDs will take the order ord.
InitLayer ==
    /\ IdleCache
    /\ IdleSync
    /\ IdleBlurb
    /\ IdleInsights
    /\ m = EmptyMap
    /\ limit = 0
    /\ enum = <<>>
    /\ result = <<>>
    /\ called = FALSE
    /\ \E ch \in Choices :
          /\ issues = IssuesOf(ch, IDOrder)
          /\ issueMap = MakeIssueMap(issues)
          /\ order \in Perms(AllIDs(issues))
    /\ nodes = <<>>
    /\ edges = <<>>
    /\ layers = <<>>
    /\ selectedNode = 0
    /\ phase = "start"
    /\ stack = <<>>
    /\ layerOf = EmptyMap
    /\ visited = {}
    /\ todo = <<>>
    /\ arg = ""
    /\ ret = 0

layerFrame == <<topVars, insightsVars, cacheVars, syncVars, blurbVars, issues,
               issueMap, order>>

\* No issues: buildGraph returns with the graph cleared.
EmptyReturn ==
    /\ phase = "start"
    /\ Len(issues) = 0
    /\ phase' = "done"
    /\ nodes' = <<>> /\ edges' = <<>> /\ layers' = <<>>
    /\ UNCHANGED <<selectedNode, stack, layerOf, visited, todo, arg, ret>>
    /\ UNCHANGED layerFrame

\* dependsOn and allIDs are built and the range over allIDs begins.
Begin ==
    /\ phase = "start"
    /\ Len(issues) # 0
    /\ phase' = "range"
    /\ todo' = order
    /\ layerOf' = EmptyMap
    /\ nodes' = <<>> /\ edges' = <<>> /\ layers' = <<>>
    /\ UNCHANGED <<selectedNode, stack, visited, arg, ret>>
    /\ UNCHANGED layerFrame

\* computeLayer(id, make(map[string]bool)) for the next id of the range.
TopCall ==
    /\ phase = "range"
    /\ todo # <<>>
    /\ arg' = Head(todo)
    /\ todo' = Tail(todo)
    /\ visited' = {}
    /\ phase' = "call"
    /\ UNCHANGED <<graphVars, stack, layerOf, ret>>
    /\ UNCHANGED <<topVars, insightsVars, cacheVars, syncVars, blurbVars>>

\* The call finds the layer of its id in layers and returns it.
ReturnMemo ==
    /\ phase = "call"
    /\ arg \in DOMAIN layerOf
    /\ ret' = layerOf[arg]
    /\ phase' = "return"
    /\ UNCHANGED <<graphVars, stack, layerOf, visited, todo, arg>>
    /\ UNCHANGED <<topVars, insightsVars, cacheVars, syncVars, blurbVars>>

\* The call finds its id visited: a cycle, it returns 0.
ReturnCycle ==
    /\ phase = "call"
    /\ arg \notin DOMAIN layerOf
    /\ Visited(visited, arg)
    /\ ret' = 0
    /\ phase' = "return"
    /\ UNCHANGED <<graphVars, stack, layerOf, visited, todo, arg>>
    /\ UNCHANGED <<topVars, insightsVars, cacheVars, syncVars, blurbVars>>

\* The call marks its id visited and starts on the parents of the id.
Descend ==
    /\ phase = "call"
    /\ arg \notin DOMAIN layerOf
    /\ ~Visited(visited, arg)
    /\ Len(stack) < MaxDepth
    /\ visited' = visited \cup {arg}
    /\ stack' = Append(stack, [id |-> arg, parents |-> DependsOn(issues, arg),
                               maxParent |-> -1])
    /\ phase' = "loop"
    /\ UNCHANGED <<graphVars, layerOf, todo, arg, ret>>
    /\ UNCHANGED <<topVars, insightsVars, cacheVars, syncVars, blurbVars>>

\* The next parent is not in issueMap and is passed over.
SkipParent ==
    /\ phase = "loop"
    /\ Top.parents # <<>>
    /\ Head(Top.parents) \notin DOMAIN issueMap
    /\ stack' = [stack EXCEPT ![Len(stack)].parents = Tail(@)]
    /\ UNCHANGED <<graphVars, phase, layerOf, visited, todo, arg, ret>>
    /\ UNCHANGED <<topVars, insightsVars, cacheVars, syncVars, blurbVars>>

\* pl := computeLayer(parent, visited) for the next parent.
CallParent ==
    /\ phase = "loop"
    /\ Top.parents # <<>>
    /\ Head(Top.parents) \in DOMAIN issueMap
    /\ arg' = Head(Top.parents)
    /\ stack' = [stack EXCEPT ![Len(stack)].parents = Tail(@)]
    /\ phase' = "call"
    /\ UNCHANGED <<graphVars, layerOf, visited, todo, ret>>
    /\ UNCHANGED <<topVars, insightsVars, cacheVars, syncVars, blurbVars>>

\* The parents are through: layers[id] = maxParent + 1 is stored and returned.
Store ==
    /\ phase = "loop"
    /\ Top.parents = <<>>
    /\ layerOf' = Put(layerOf, Top.id, Top.maxParent + 1)
    /\ ret' = Top.maxParent + 1
    /\ stack' = Pop
    /\ phase' = "return"
    /\ UNCHANGED <<graphVars, visited, todo, arg>>
    /\ UNCHANGED <<topVars, insightsVars, cacheVars, syncVars, blurbVars>>

\* Back in the calling computeLayer: if pl > maxParent { maxParent = pl }.
Resume ==
    /\ phase = "return"
    /\ stack # <<>>
    /\ stack' = [stack EXCEPT ![Len(stack)].maxParent = Max(@, ret)]
    /\ phase' = "loop"
    /\ UNCHANGED <<graphVars, layerOf, visited, todo, arg, ret>>
    /\ UNCHANGED <<topVars, insightsVars, cacheVars, syncVars, blurbVars>>

\* Back in the range over allIDs, which drops the value returned.
TopReturn ==
    /\ phase = "return"
    /\ stack = <<>>
    /\ phase' = "range"
    /\ UNCHANGED <<graphVars, stack, layerOf, visited, todo, arg, ret>>
    /\ UNCHANGED <<topVars, insightsVars, cacheVars, syncVars, blurbVars>>

\* The range is through: the layers are grouped and sorted, the nodes and
\* the edges are made, selectedNode is kept inside the nodes.
Finish ==
    /\ phase = "range"
    /\ todo = <<>>
    /\ LET ns == NodesFrom(layerOf, 0, MaxLayer(layerOf))
       IN  /\ nodes' = ns
           /\ edges' = EdgesOf(issues, NodeIndexMap(ns))
           /\ layers' = LayersOf(ns, MaxLayer(layerOf))
           /\ selectedNode' = IF selectedNode >= Len(ns) THEN 0 ELSE selectedNode
    /\ phase' = "done"
    /\ UNCHANGED <<stack, layerOf, visited, todo, arg, ret>>
    /\ UNCHANGED layerFrame

NextLayer ==
    \/ EmptyReturn
    \/ Begin
    \/ TopCall
    \/ ReturnMemo
    \/ ReturnCycle
    \/ Descend
    \/ SkipParent
    \/ CallParent
    \/ Store
    \/ Resume
    \/ TopReturn
    \/ Finish

SpecLayer == InitLayer /\ [][NextLayer]_vars

\* buildGraph runs on one goroutine, which keeps taking its next step.
SpecLayerFair == SpecLayer /\ WF_vars(NextLayer)

\* --------------------------------------------------- specification: sync

Hashes == {ComputeContentHash(t) : t \in Texts}

\* The indexes a sync may be handed: nil, or one of some dimension holding,
\* for some ids, a content hash and a vector embedded earlier.
IndexesOf(d) ==
    {[isNil |-> FALSE, Dim |-> d, entries |-> en] :
        en \in UNION {[K -> {[ContentHash |-> h,
                              Vector |-> [text |-> "old", dim |-> d]] :
                                 h \in Hashes}] : K \in SUBSET IDs}}

Indexes == {NilIndex} \cup UNION {IndexesOf(d) : d \in Dims}

Embedders == {NilEmbedder} \cup {[isNil |-> FALSE, dim |-> d] : d \in Dims}

DocMaps == UNION {[K -> Texts] : K \in SUBSET IDs}

\* Batch sizes: none given (32 is used), one, two.
BatchSizes == {0, 1, 2}

InitSync ==
    /\ IdleCache
    /\ IdleInsights
    /\ IdleGraph
    /\ IdleLayer
    /\ IdleBlurb
    /\ m = EmptyMap
    /\ limit = 0
    /\ enum = <<>>
    /\ result = <<>>
    /\ called = FALSE
    /\ idx \in Indexes
    /\ embedder \in Embedders
    /\ docs \in DocMaps
    /\ batchSize \in BatchSizes
    /\ syncStats = <<>>
    /\ syncErrs = <<>>
    /\ embedCalls = <<>>
    /\ idxBefore = idx
    /\ syncCall = NoCall

syncFrame ==
    <<embedder, docs, batchSize, topVars, insightsVars, cacheVars, graphVars,
      layerVars, blurbVars>>

\* return stats, err
Return(st, err) ==
    /\ syncStats' = Append(syncStats, st)
    /\ syncErrs' = Append(syncErrs, err)
    /\ syncCall' = NoCall

\* SyncVectorIndex(ctx, idx, embedder, docs, batchSize) is called: the checks,
\* the default batch size, stats.Total, and the snapshot idx.sortedIDs().
SyncVectorIndex ==
    /\ syncCall.pc = "idle"
    /\ Len(syncErrs) < MaxSyncs
    /\ idxBefore' = idx
    /\ embedCalls' = <<>>
    /\ IF Precondition(idx, embedder) # "nil"
       THEN Return(ZeroStats, Precondition(idx, embedder))
       ELSE /\ syncCall' = [NoCall EXCEPT
                               !.pc = "remove",
                               !.batchSize = EffectiveBatch(batchSize),
                               !.stats.Total = Cardinality(DOMAIN docs),
                               !.existingIDs = sortedIDs(idx)]
            /\ UNCHANGED <<syncStats, syncErrs>>
    /\ UNCHANGED <<idx, syncFrame>>

\* for _, issueID := range existingIDs: one id of the snapshot; it is
\* removed from the index if docs has no such key.
RemoveStale ==
    /\ syncCall.pc = "remove"
    /\ syncCall.existingIDs # <<>>
    /\ LET issueID == Head(syncCall.existingIDs)
           ok == issueID \in DOMAIN docs
       IN  /\ idx' = IF ok THEN idx ELSE Remove(idx, issueID)
           /\ syncCall' = [syncCall EXCEPT
                              !.existingIDs = Tail(@),
                              !.stats.Removed = IF ok THEN @ ELSE @ + 1]
    /\ UNCHANGED <<syncStats, syncErrs, embedCalls, idxBefore, syncFrame>>

\* The snapshot is through: ids is the sorted keys of docs.
SortIDs ==
    /\ syncCall.pc = "remove"
    /\ syncCall.existingIDs = <<>>
    /\ syncCall' = [syncCall EXCEPT
                       !.pc = IF DOMAIN docs = {} THEN "batch" ELSE "classify",
                       !.ids = SortStrings(DOMAIN docs)]
    /\ UNCHANGED <<idx, syncStats, syncErrs, embedCalls, idxBefore, syncFrame>>

\* for _, id := range ids: one doc; idx.Get(id), and the doc is skipped or
\* put on the lists of what is to be embedded.
Classify ==
    /\ syncCall.pc = "classify"
    /\ LET id == Head(syncCall.ids)
           text == docs[id]
           ch == ComputeContentHash(text)
           ok == id \in DOMAIN idx.entries
           existingHash == IF ok THEN idx.entries[id].ContentHash ELSE ""
           next == IF Tail(syncCall.ids) = <<>> THEN "batch" ELSE "classify"
       IN  syncCall' =
             IF IsUnchanged(ok, existingHash, ch)
             THEN [syncCall EXCEPT !.pc = next, !.ids = Tail(@),
                                   !.stats.Skipped = @ + 1]
             ELSE [syncCall EXCEPT !.pc = next, !.ids = Tail(@),
                                   !.stats.Updated = IF ok THEN @ + 1 ELSE @,
                                   !.stats.Added = IF ok THEN @ ELSE @ + 1,
                                   !.toEmbedIDs = Append(@, id),
                                   !.toEmbedTexts = Append(@, text),
                                   !.toEmbedHashes = Append(@, ch)]
    /\ UNCHANGED <<idx, syncStats, syncErrs, embedCalls, idxBefore, syncFrame>>

\* The end of the batch that starts at start.
BatchEnd == Min(syncCall.start + syncCall.batchSize, Len(syncCall.toEmbedTexts))

\* One turn of the batch loop up to the vectors: ctx.Err() may report the
\* context done; embedder.Embed is handed the texts of the batch and may
\* fail, or return another number of vectors than it was handed texts.
EmbedBatch ==
    /\ syncCall.pc = "batch"
    /\ syncCall.start < Len(syncCall.toEmbedTexts)
    /\ \/ /\ Return(syncCall.stats, "ctx")
          /\ UNCHANGED embedCalls
       \/ /\ embedCalls' = Append(embedCalls,
                 SubSeq(syncCall.toEmbedTexts, syncCall.start + 1, BatchEnd))
          /\ \/ \E err \in {"embed", "count"} : Return(syncCall.stats, err)
             \/ /\ syncCall' = [syncCall EXCEPT !.pc = "upsert", !.i = 0]
                /\ UNCHANGED <<syncStats, syncErrs>>
    /\ UNCHANGED <<idx, idxBefore, syncFrame>>

\* for i, vec := range vecs: one vector; idx.Upsert may fail.  After the
\* last vector of the batch the loop goes on with the next batch.
UpsertVec ==
    /\ syncCall.pc = "upsert"
    /\ \/ /\ Return(syncCall.stats, "upsert")
          /\ UNCHANGED idx
       \/ LET at == syncCall.start + syncCall.i + 1
              last == at = BatchEnd
          IN  /\ idx' = Upsert(idx, syncCall.toEmbedIDs[at],
                               syncCall.toEmbedHashes[at],
                               Embed(embedder, syncCall.toEmbedTexts[at]))
              /\ syncCall' = [syncCall EXCEPT
                   !.stats.Embedded = @ + 1,
                   !.pc = IF last THEN "batch" ELSE "upsert",
                   !.i = IF last THEN 0 ELSE @ + 1,
                   !.start = IF last THEN @ + syncCall.batchSize ELSE @]
              /\ UNCHANGED <<syncStats, syncErrs>>
    /\ UNCHANGED <<embedCalls, idxBefore, syncFrame>>

\* return stats, nil
ReturnStats ==
    /\ syncCall.pc = "batch"
    /\ syncCall.start >= Len(syncCall.toEmbedTexts)
    /\ Return(syncCall.stats, "nil")
    /\ UNCHANGED <<idx, embedCalls, idxBefore, syncFrame>>

NextSync ==
    \/ SyncVectorIndex
    \/ RemoveStale
    \/ SortIDs
    \/ Classify
    \/ EmbedBatch
    \/ UpsertVec
    \/ ReturnStats

SpecSync == InitSync /\ [][NextSync]_vars

\* -------------------------------------------------- specification: blurb

\* A legacy blurb, as it was appended before the markers existed.
LegacyBlurb ==
    <<Heading, NL, NL, X, RobotInsights, X, NL, X, RobotPlan, NL,
      HardParts, X, NL, Fence, NL>>

\* What a file is put together from: lines of text, single markers and
\* patterns, and whole blurbs (a legacy one, a marked one of version 1, the
\* current one).
Parts ==
    {<<NL>>, <<X>>, <<X, NL>>, <<Section, NL>>, <<HardParts>>, <<Heading, NL>>,
     <<RobotInsights, RobotPlan>>, <<StartMarker(1)>>, <<StartMarker(2)>>,
     <<StartMarker(3)>>, <<BlurbEndMarker>>, LegacyBlurb,
     <<StartMarker(1), NL, NL, X, NL, NL, BlurbEndMarker>>, AgentBlurb}

RECURSIVE Concat(_)
Concat(ps) == IF ps = <<>> THEN <<>> ELSE Head(ps) \o Concat(Tail(ps))

Contents == {Concat(ps) : ps \in UNION {[1..n -> Parts] : n \in 0..MaxParts}}

InitBlurb ==
    /\ IdleCache
    /\ IdleInsights
    /\ IdleGraph
    /\ IdleLayer
    /\ IdleSync
    /\ m = EmptyMap
    /\ limit = 0
    /\ enum = <<>>
    /\ result = <<>>
    /\ called = FALSE
    /\ agentFile \in Contents
    /\ agentFileBefore = agentFile
    /\ blurbOp = "none"

blurbFrame == <<topVars, insightsVars, cacheVars, graphVars, layerVars, syncVars>>

\* content = UpdateBlurb(content)
UpdateBlurbCall ==
    /\ blurbOp = "none"
    /\ agentFile' = UpdateBlurb(agentFile)
    /\ agentFileBefore' = agentFile
    /\ blurbOp' = "UpdateBlurb"
    /\ UNCHANGED blurbFrame

\* content = AppendBlurb(content)
AppendBlurbCall ==
    /\ blurbOp = "none"
    /\ agentFile' = AppendBlurb(agentFile)
    /\ agentFileBefore' = agentFile
    /\ blurbOp' = "AppendBlurb"
    /\ UNCHANGED blurbFrame

\* content = RemoveBlurb(content)
RemoveBlurbCall ==
    /\ blurbOp = "none"
    /\ agentFile' = RemoveBlurb(agentFile)
    /\ agentFileBefore' = agentFile
    /\ blurbOp' = "RemoveBlurb"
    /\ UNCHANGED blurbFrame

\* content = RemoveLegacyBlurb(content)
RemoveLegacyBlurbCall ==
    /\ blurbOp = "none"
    /\ agentFile' = RemoveLegacyBlurb(agentFile)
    /\ agentFileBefore' = agentFile
    /\ blurbOp' = "RemoveLegacyBlurb"
    /\ UNCHANGED blurbFrame

NextBlurb ==
    \/ UpdateBlurbCall
    \/ AppendBlurbCall
    \/ RemoveBlurbCall
    \/ RemoveLegacyBlurbCall

SpecBlurb == InitBlurb /\ [][NextBlurb]_vars

\* ------------------------------------------------------ claims on ranking

\* j ranks strictly before k in map mm: higher value, or equal value and
\* the lexicographically smaller identifier.
Better(mm, j, k) == mm[j] > mm[k] \/ (mm[j] = mm[k] /\ StrLess(j, k))

\* The number of entries of mm that rank strictly before k.
Rank(mm, k) == Cardinality({j \in DOMAIN mm : Better(mm, j, k)})

\* C1: the list getTopItems returns holds entries of the map, ordered by
\* value descending, and entries of equal value stand in ascending
\* lexicographic order of their identifiers.
C1_Ordered ==
    called =>
        /\ \A i \in DOMAIN result :
              /\ result[i].ID \in DOMAIN m
              /\ result[i].Value = m[result[i].ID]
        /\ \A i, j \in DOMAIN result :
              i < j =>
                 \/ result[i].Value > result[j].Value
                 \/ /\ result[i].Value = result[j].Value
                    /\ StrLess(result[i].ID, result[j].ID)

\* The spec's example: equal values for "bv-2" and "bv-1", ranged over as
\* bv-2 then bv-1, come out with "bv-1" first.
C1_Witness ==
    /\ called
    /\ enum = <<"bv-2", "bv-1">>
    /\ m["bv-1"] = m["bv-2"]
    /\ result = <<[ID |-> "bv-1", Value |-> 1], [ID |-> "bv-2", Value |-> 1]>>

\* C3: for a limit N > 0 the list has exactly min(N, entries of the map)
\* items, and its i-th item is the entry that exactly i-1 entries of the map
\* rank before: the first N items of the full ranking (which is also what a
\* limit equal to the size of the map returns), no identifier repeated.
C3_Prefix ==
    (called /\ limit > 0) =>
        /\ Len(result) = Min(limit, Cardinality(DOMAIN m))
        /\ \A i \in DOMAIN result :
              /\ result[i].ID \in DOMAIN m
              /\ result[i].Value = m[result[i].ID]
              /\ Rank(m, result[i].ID) = i - 1
        /\ result =
              SubSeq(getTopItems(m, enum, Cardinality(DOMAIN m)), 1, Len(result))

\* A limit of 2 on a map of three entries keeps the two best and drops one.
C3_Witness ==
    /\ called
    /\ limit = 2
    /\ DOMAIN m = IDs
    /\ Len(result) = 2
    /\ result[1].ID = "bv-10"
    /\ result[2].ID = "bv-2"

\* C4: ranking is deterministic: a further call on the same map and limit
\* returns the identical sequence whatever order the map is ranged over.
C4_Deterministic == [][called => result' = result]_vars

\* A second call has ranged over a tied map in another order than ascending.
C4_Witness ==
    /\ called
    /\ enum = <<"bv-2", "bv-10", "bv-1">>
    /\ m["bv-1"] = m["bv-2"]
    /\ m["bv-2"] = m["bv-10"]
    /\ Len(result) = 3

\* ----------------------------------------------------- claims on insights

\* list is the first n entries of the ranking of map mm: value descending,
\* ties by identifier ascending, stated by counting the entries before each.
IsRanking(list, mm, n) ==
    /\ Len(list) = Min(n, Cardinality(DOMAIN mm))
    /\ \A i \in DOMAIN list :
          /\ list[i].ID \in DOMAIN mm
          /\ list[i].Value = mm[list[i].ID]
          /\ Rank(mm, list[i].ID) = i - 1

IsFullRanking(list, mm) == IsRanking(list, mm, Cardinality(DOMAIN mm))

\* list is some prefix of the ranking of map mm.
IsRankingPrefix(list, mm) ==
    Len(list) <= Cardinality(DOMAIN mm) /\ IsRanking(list, mm, Len(list))

AllMapsEmpty ==
    /\ stats.pageRank = EmptyMap
    /\ \A f \in RankedFields : stats[f] = EmptyMap

\* C2: called with limit <= 0, each of the five ranked lists holds every
\* identifier of its own metric map exactly once, fully ordered.
C2_NoLimitReturnsAll ==
    (called /\ limit <= 0) =>
        /\ IsFullRanking(insights.Bottlenecks, stats.betweenness)
        /\ IsFullRanking(insights.Keystones, stats.criticalPath)
        /\ IsFullRanking(insights.Influencers, stats.eigenvector)
        /\ IsFullRanking(insights.Hubs, stats.hubs)
        /\ IsFullRanking(insights.Authorities, stats.authorities)

\* A call with limit <= 0 on a snapshot of two nodes has returned: every
\* list has both nodes, and Bottlenecks and Hubs rank them by their values,
\* in opposite orders.
C2_Witness ==
    /\ called
    /\ limit <= 0
    /\ DOMAIN stats.pageRank = NodeIDs
    /\ \A f \in RankedFields : DOMAIN stats[f] = NodeIDs
    /\ Len(insights.Bottlenecks) = 2
    /\ Len(insights.Authorities) = 2
    /\ Len(insights.Hubs) = 2
    /\ insights.Bottlenecks[1].Value > insights.Bottlenecks[2].Value
    /\ insights.Hubs[1].ID = insights.Bottlenecks[2].ID

\* C5: on an empty graph (every metric map empty) GenerateInsights can be
\* called with any limit, and each of the five ranked lists is empty.
C5_EmptyGraph ==
    AllMapsEmpty =>
        /\ (\A c \in Callers : Returned(c)) \/ ENABLED NextInsights
        /\ called =>
              /\ insights.Bottlenecks = <<>>
              /\ insights.Keystones = <<>>
              /\ insights.Influencers = <<>>
              /\ insights.Hubs = <<>>
              /\ insights.Authorities = <<>>

\* The call has been made on an empty graph with a positive limit.
C5_Witness ==
    /\ called
    /\ AllMapsEmpty
    /\ limit = Cardinality(NodeIDs) + 1
    /\ insights.Bottlenecks = <<>>
    /\ insights.Authorities = <<>>

\* What C6 says of the Insights returned: each list ranks its own map (with
\* a positive limit, exactly the first limit entries), and the cycles, the
\* density and the stats reference are those of the receiver.
C6_Wiring ==
    called =>
        /\ IsRankingPrefix(insights.Bottlenecks, stats.betweenness)
        /\ IsRankingPrefix(insights.Keystones, stats.criticalPath)
        /\ IsRankingPrefix(insights.Influencers, stats.eigenvector)
        /\ IsRankingPrefix(insights.Hubs, stats.hubs)
        /\ IsRankingPrefix(insights.Authorities, stats.authorities)
        /\ limit > 0 =>
              /\ IsRanking(insights.Bottlenecks, stats.betweenness, limit)
              /\ IsRanking(insights.Keystones, stats.criticalPath, limit)
              /\ IsRanking(insights.Influencers, stats.eigenvector, limit)
              /\ IsRanking(insights.Hubs, stats.hubs, limit)
              /\ IsRanking(insights.Authorities, stats.authorities, limit)
        /\ insights.Cycles = stats.cycles
        /\ insights.ClusterDensity = stats.Density
        /\ insights.Stats = self

\* C6: GenerateInsights bundles Bottlenecks from betweenness, Keystones from
\* the critical path, Influencers from the eigenvector, Hubs from hubs,
\* Authorities from authorities, the stats' cycles and density and a
\* reference to the stats, and no call changes the stats or a metric map.
C6_Bundle == [](C6_Wiring) /\ [][stats' = stats /\ self' = self]_vars

\* Every caller has returned; in the Insights returned last Hubs and
\* Authorities come out differently, and cycles and density are set.
C6_Witness ==
    /\ called
    /\ insights.Hubs # <<>>
    /\ insights.Authorities # <<>>
    /\ insights.Hubs[1].ID # insights.Authorities[1].ID
    /\ \A c \in Callers : Returned(c)
    /\ insights.Cycles # <<>>
    /\ insights.ClusterDensity = 1
    /\ insights.Stats = "s1"

\* -------------------------------------------------------- claims on cache

\* Each metric has been computed at most once, and every caller that has
\* read it holds the one stored result.
C7_Once ==
    \A k \in Metrics :
        /\ computations[k] <= 1
        /\ \A c \in Callers : seen[c][k] # 0 => seen[c][k] = stored[k]
        /\ \A c, d \in Callers :
              (seen[c][k] # 0 /\ seen[d][k] # 0) => seen[c][k] = seen[d][k]

AllDone == \A c \in Callers : Done(c)

\* C7: under any interleaving of concurrent callers each metric is computed
\* at most once, every caller observes the same stored result, and every
\* caller gets through all its accessor calls (none blocks forever).
C7_ComputeOnce == [](C7_Once) /\ <>(AllDone)

\* All callers are through; every metric was computed once and every caller
\* holds that result.
C7_Witness ==
    /\ AllDone
    /\ \A k \in Metrics : computations[k] = 1
    /\ \A c \in Callers : \A k \in Metrics : seen[c][k] = 1

\* -------------------------------------------------------- claims on graph

Structural == {DepBlocks, DepParentChild}

\* The dependencies (issue i, position j) of the issues handed in.
DepSlots == {p \in (DOMAIN issues) \X (1..1 + Len(issues)) :
                p[2] \in DOMAIN issues[p[1]].Dependencies}

DepAt(p) == issues[p[1]].Dependencies[p[2]]

\* The structural dependencies whose target is one of the issues handed in.
LiveSlots == {p \in DepSlots : /\ DepAt(p).Type \in Structural
                               /\ DepAt(p).DependsOnID \in AllIDs(issues)}

\* The issues with every dependency that is not structural taken out.
StructuralPart(iss) ==
    [i \in DOMAIN iss |->
        [ID |-> iss[i].ID,
         Dependencies |-> SelectSeq(iss[i].Dependencies,
                                    LAMBDA d : d.Type \in Structural)]]

\* The id of the node with index idx.
NodeID(n) == nodes[n + 1].id

\* C8: only blocks and parent-child dependencies make edges and layers.
\* Every edge is of a structural kind; the nodes (so every node's layer),
\* edges and layers are those the same build makes of the issues with all
\* other dependencies taken out; and an id none of whose issues has a
\* structural dependency lies in layer 0.
C8_StructuralOnly ==
    /\ \A e \in DOMAIN edges : edges[e].depType \in Structural
    /\ LET iss == StructuralPart(issues)
           b == buildGraph(iss, MakeIssueMap(iss), order, selectedNode)
       IN  /\ nodes = b.nodes
           /\ edges = b.edges
           /\ layers = b.layers
    /\ \A n \in DOMAIN nodes :
          (\A p \in DepSlots :
              issues[p[1]].ID = nodes[n].id => DepAt(p).Type \notin Structural)
          => nodes[n].layer = 0

\* An issue's only dependency is of another kind, on another issue of the
\* view: both are built, in layer 0, and no edge joins them.
C8_Witness ==
    /\ \E p \in DepSlots :
          /\ DepAt(p).Type = DepRelatesTo
          /\ DepAt(p).DependsOnID \in AllIDs(issues)
          /\ DepAt(p).DependsOnID # issues[p[1]].ID
    /\ Len(nodes) >= 2
    /\ \A n \in DOMAIN nodes : nodes[n].layer = 0
    /\ edges = <<>>

\* C9: after NewGraphModel and after every SetIssues, both ends of every
\* edge are indices of nodes; there is one node for each id handed in; and
\* the edges are as many as the structural dependencies whose target was
\* handed in, a dependency on an unknown id leaving no edge.
C9_EndpointsValid ==
    /\ \A e \in DOMAIN edges :
          /\ edges[e].from \in 0..(Len(nodes) - 1)
          /\ edges[e].to \in 0..(Len(nodes) - 1)
    /\ Len(nodes) = Cardinality(AllIDs(issues))
    /\ {nodes[n].id : n \in DOMAIN nodes} = AllIDs(issues)
    /\ Len(edges) = Cardinality(LiveSlots)

\* One issue depends structurally on an id that was not handed in, another
\* on an issue of the view: the graph has the second edge only.
C9_Witness ==
    /\ \E p \in DepSlots :
          /\ DepAt(p).Type \in Structural
          /\ DepAt(p).DependsOnID \notin AllIDs(issues)
    /\ Len(edges) = 1
    /\ Len(nodes) = 2

\* C10: an edge runs from the prerequisite to the dependent.  Each
\* structural dependency of A on B, both in the view, has an edge from B's
\* node to A's node, and every edge is from the target of such a dependency
\* to the issue that has it.
C10_Direction ==
    /\ \A p \in LiveSlots :
          \E e \in DOMAIN edges :
              /\ NodeID(edges[e].from) = DepAt(p).DependsOnID
              /\ NodeID(edges[e].to) = issues[p[1]].ID
              /\ edges[e].depType = DepAt(p).Type
    /\ \A e \in DOMAIN edges :
          \E p \in LiveSlots :
              /\ NodeID(edges[e].from) = DepAt(p).DependsOnID
              /\ NodeID(edges[e].to) = issues[p[1]].ID

\* bv-1 depends on bv-2 and nothing depends on bv-1: the one edge goes from
\* the node of bv-2 to the node of bv-1.
C10_Witness ==
    /\ \E p \in LiveSlots :
          /\ issues[p[1]].ID = "bv-1"
          /\ DepAt(p).DependsOnID = "bv-2"
    /\ \A p \in LiveSlots : DepAt(p).DependsOnID # "bv-1"
    /\ Len(edges) = 1
    /\ NodeID(edges[1].from) = "bv-2"
    /\ NodeID(edges[1].to) = "bv-1"

\* C11: self-referential and duplicate dependencies leave no edge.  No edge
\* has the same node at both ends, and no two edges have the same from and
\* the same to.
C11_NoSelfNoDuplicate ==
    /\ \A e \in DOMAIN edges : edges[e].from # edges[e].to
    /\ \A e, f \in DOMAIN edges :
          (edges[e].from = edges[f].from /\ edges[e].to = edges[f].to) => e = f

\* ---------------------------------------- claims on buildGraph's progress

\* The issues hold a dependency cycle through id: id reaches itself along
\* dependencies between issues of the view.
RECURSIVE Reaches(_, _, _)
Reaches(from, to, n) ==
    IF n = 0 THEN FALSE
    ELSE \E i \in DOMAIN issues : \E j \in DOMAIN issues[i].Dependencies :
            /\ issues[i].ID = from
            /\ issues[i].Dependencies[j].DependsOnID \in AllIDs(issues)
            /\ \/ issues[i].Dependencies[j].DependsOnID = to
               \/ Reaches(issues[i].Dependencies[j].DependsOnID, to, n - 1)

OnCycle(id) == Reaches(id, id, Cardinality(AllIDs(issues)))

\* While buildGraph runs, the calls of computeLayer that have not returned
\* are for different ids, so they are never more than the ids handed in.
C18_Bounded ==
    /\ \A i, j \in DOMAIN stack : stack[i].id = stack[j].id => i = j
    /\ Len(stack) <= Cardinality(AllIDs(issues))

\* When buildGraph has returned, every id handed in has a layer and is the
\* id of exactly one node; layers and nodes are those of buildGraph.
C18_Complete ==
    phase = "done" =>
        /\ DOMAIN layerOf = AllIDs(issues)
        /\ \A id \in AllIDs(issues) :
              Cardinality({n \in DOMAIN nodes : nodes[n].id = id}) = 1
        /\ Len(nodes) = Cardinality(AllIDs(issues))
        /\ LET b == buildGraph(issues, issueMap, order, 0)
           IN  nodes = b.nodes /\ edges = b.edges /\ layers = b.layers

\* C18: buildGraph returns for every input, dependency cycles included: the
\* recursion of computeLayer stays bounded, buildGraph reaches its end, and
\* then every id has a layer and exactly one node.
C18_Terminates == [](C18_Bounded) /\ [](C18_Complete) /\ <>(phase = "done")

\* buildGraph has returned on issues where one id depends on itself, two
\* others depend on each other, and all three have their node.
C18_Witness ==
    /\ phase = "done"
    /\ Len(nodes) = 3
    /\ \E a \in AllIDs(issues) : \E i \in DOMAIN issues :
          /\ issues[i].ID = a
          /\ \E j \in DOMAIN issues[i].Dependencies :
                issues[i].Dependencies[j].DependsOnID = a
    /\ \A a \in AllIDs(issues) : OnCycle(a)
    /\ \E a \in AllIDs(issues) : \E i \in DOMAIN issues :
          /\ issues[i].ID = a
          /\ \A j \in DOMAIN issues[i].Dependencies :
                issues[i].Dependencies[j].DependsOnID # a

\* --------------------------------------------------------- claims on sync

\* The last call of SyncVectorIndex that has returned, no call running: its
\* number (0: none), error and stats.
LastSync == IF syncCall.pc = "idle" THEN Len(syncErrs) ELSE 0
LastErr == syncErrs[LastSync]
LastStats == syncStats[LastSync]

\* The docs the index handed to the last call had no entry for, or an entry
\* with another content hash.
Stale ==
    {id \in DOMAIN docs :
        \/ id \notin DOMAIN idxBefore.entries
        \/ idxBefore.entries[id].ContentHash # ComputeContentHash(docs[id])}

\* All the texts the embedder was handed by the last call, in order.
RECURSIVE Flatten(_)
Flatten(batches) ==
    IF batches = <<>> THEN <<>> ELSE Head(batches) \o Flatten(Tail(batches))

\* The last call was handed a nil index, a nil embedder, or an index and an
\* embedder of different dimensions.
BadPrecondition ==
    \/ idxBefore.isNil
    \/ embedder.isNil
    \/ idxBefore.Dim # embedder.dim

\* C12: after SyncVectorIndex returns without error the ids of the index
\* are the keys of docs and every entry's content hash is the hash of the
\* current text of its doc.
C12_IndexMatchesDocs ==
    (LastSync > 0 /\ LastErr = "nil") =>
        /\ ~idx.isNil
        /\ DOMAIN idx.entries = DOMAIN docs
        /\ \A id \in DOMAIN docs :
              idx.entries[id].ContentHash = ComputeContentHash(docs[id])

\* A sync without error that removed an id, added one and updated one.
C12_Witness ==
    /\ LastSync > 0
    /\ LastErr = "nil"
    /\ LastStats.Removed > 0
    /\ LastStats.Added > 0
    /\ LastStats.Updated > 0
    /\ LastStats.Embedded = 2

\* C13: the sync is incremental.  A call that passes the checks counts as
\* Skipped the docs whose entry has the hash of their text and leaves their
\* entries as they were; if it returns without error, the embedder was
\* handed exactly the texts of the other docs.  A sync following one that
\* returned without error, on the same docs, returns without error, never
\* calls the embedder, and reports Added = Updated = Removed = Embedded = 0,
\* Skipped = Total and Changed() = false.
C13_Incremental ==
    /\ (LastSync > 0 /\ ~BadPrecondition) =>
          /\ LastStats.Skipped = Cardinality(DOMAIN docs \ Stale)
          /\ LastStats.Total = Cardinality(DOMAIN docs)
          /\ \A id \in DOMAIN docs \ Stale :
                /\ id \in DOMAIN idx.entries
                /\ idx.entries[id] = idxBefore.entries[id]
          /\ LastErr = "nil" =>
                /\ Flatten(embedCalls) =
                      [i \in 1..Cardinality(Stale) |-> docs[SortStrings(Stale)[i]]]
                /\ LastStats.Embedded = Cardinality(Stale)
                /\ LastStats.Added + LastStats.Updated = Cardinality(Stale)
    /\ (LastSync > 1 /\ syncErrs[LastSync - 1] = "nil") =>
          /\ LastErr = "nil"
          /\ embedCalls = <<>>
          /\ LastStats = [ZeroStats EXCEPT !.Total = Cardinality(DOMAIN docs),
                                           !.Skipped = Cardinality(DOMAIN docs)]
          /\ ~Changed(LastStats)
          /\ idx = idxBefore

\* A second sync after a first that embedded two docs and skipped one.
C13_Witness ==
    /\ LastSync = 2
    /\ syncErrs[1] = "nil"
    /\ syncStats[1].Embedded = 2
    /\ syncStats[1].Skipped = 1
    /\ Changed(syncStats[1])
    /\ LastStats.Skipped = 3

\* C14: a nil index, a nil embedder, or an index of another dimension than
\* the embedder's makes SyncVectorIndex return an error and all-zero stats,
\* with the index as it was and the embedder never called.
C14_RejectsBadInput ==
    (LastSync > 0 /\ BadPrecondition) =>
        /\ LastErr # "nil"
        /\ LastStats = ZeroStats
        /\ idx = idxBefore
        /\ embedCalls = <<>>

\* A sync handed an index and an embedder of different dimensions, where the
\* index holds an id that docs does not and docs one the index does not.
C14_Witness ==
    /\ LastSync > 0
    /\ ~idxBefore.isNil /\ ~embedder.isNil
    /\ idxBefore.Dim # embedder.dim
    /\ DOMAIN idxBefore.entries \ DOMAIN docs # {}
    /\ DOMAIN docs \ DOMAIN idxBefore.entries # {}
    /\ LastErr = "index dim does not match embedder dim"

\* -------------------------------------------------------- claims on blurb

\* The markers of a content, in order.
MarkersOf(c) == SelectSeq(c, LAMBDA t : IsStartMarker(t) \/ t = BlurbEndMarker)

\* How often a piece occurs.
CountOf(c, piece) == Cardinality({i \in DOMAIN c : c[i] = piece})

\* The content holds no marker, or one marked blurb of an older or of the
\* current version (and may hold a legacy blurb).
HoldsOneBlurbAtMost(c) ==
    \/ MarkersOf(c) = <<>>
    \/ \E v \in 1..BlurbVersion : MarkersOf(c) = <<StartMarker(v), BlurbEndMarker>>

\* The content holds no blurb, marked or legacy.
HoldsNoBlurb(c) == ~ContainsBlurb(c) /\ ~ContainsLegacyBlurb(c)

\* The number of bytes of a piece, and of a content.
PieceLen(t) ==
    CASE t = NL -> 1
      [] t = CR -> 1
      [] t = X -> 1
      [] t = Fence -> 3
      [] t = Section -> 10
      [] t = RobotPlan -> 12
      [] t = RobotInsights -> 16
      [] t = Heading -> 29
      [] t = BlurbEndMarker -> 34
      [] t = HardParts -> 34
      [] OTHER -> 33

RECURSIVE ByteLen(_)
ByteLen(c) == IF c = <<>> THEN 0 ELSE PieceLen(Head(c)) + ByteLen(Tail(c))

\* C15: for content holding a legacy blurb, an older marked blurb, the
\* current blurb or none, UpdateBlurb(content) holds the current blurb
\* exactly once, no older or legacy blurb, and does not need an update.
C15_UpdateGivesCurrent ==
    (blurbOp = "UpdateBlurb" /\ HoldsOneBlurbAtMost(agentFileBefore)) =>
        /\ CountOf(agentFile, BlurbStartMarker) = 1
        /\ CountOf(agentFile, BlurbEndMarker) = 1
        /\ \A v \in 1..(BlurbVersion - 1) : ~Contains(agentFile, StartMarker(v))
        /\ ~NeedsUpdate(agentFile)

\* C16: NeedsUpdate is true exactly for content holding a legacy blurb (the
\* heading and all four patterns) or a marked blurb of a lower version, and
\* false for content without a blurb and for AppendBlurb(c) where c holds no
\* blurb.
C16_NeedsUpdateExact ==
    /\ NeedsUpdate(agentFile) <=>
          \/ ContainsLegacyBlurb(agentFile)
          \/ /\ ContainsBlurb(agentFile)
             /\ GetBlurbVersion(agentFile) < BlurbVersion
    /\ HoldsNoBlurb(agentFile) => ~NeedsUpdate(agentFile)
    /\ (blurbOp = "AppendBlurb" /\ HoldsNoBlurb(agentFileBefore)) =>
          ~NeedsUpdate(agentFile)

\* C17: with a start marker and the end marker in the content, RemoveBlurb
\* returns the content without the span from the start marker through the
\* end marker and the line breaks next to it, the rest in order and nothing
\* twice, so never more bytes than before; without one of the markers it
\* returns the content as it is.
C17_RemoveBlurbCuts ==
    blurbOp = "RemoveBlurb" =>
        IF ContainsBlurb(agentFileBefore) /\ Contains(agentFileBefore, BlurbEndMarker)
        THEN /\ \E s \in 0..Len(agentFileBefore) : \E e \in s..Len(agentFileBefore) :
                  /\ agentFile = Cut(agentFileBefore, s, e)
                  /\ \E i \in (s + 1)..e : \E j \in i..e :
                        /\ IsStartMarker(agentFileBefore[i])
                        /\ agentFileBefore[j] = BlurbEndMarker
                        /\ \A k \in ((s + 1)..(i - 1)) \cup ((j + 1)..e) :
                              IsLineBreak(agentFileBefore[k])
             /\ ByteLen(agentFile) <= ByteLen(agentFileBefore)
        ELSE agentFile = agentFileBefore

====
